---- MODULE Spec2Model ----
(***************************************************************************)
(* Model of src/review.py: one run of the pull-request review script.      *)
(* Strings that the code inspects character by character (paths, glob      *)
(* patterns, the `exclude` setting, line-number strings) are sequences of  *)
(* one-character strings.                                                  *)
(***************************************************************************)
EXTENDS Integers, Sequences, FiniteSets, TLC

\* ---------------------------------------------------------------- bounds
MaxFiles == 2       \* files in one parsed diff
MaxChunks == 3      \* chunks in one parsed diff, all files together
MaxItems == 2       \* items in one `reviews` list handed to create_comment directly

\* ------------------------------------------------------- character strings
DevNull == <<"/", "d", "e", "v", "/", "n", "u", "l", "l">>
PathAM == <<"a", ".", "m">>
Whitespace == {" "}
Digits == {"0", "1", "2", "3", "4", "5", "6", "7", "8", "9"}

DigitVal(c) ==
  CASE c = "0" -> 0 [] c = "1" -> 1 [] c = "2" -> 2 [] c = "3" -> 3
    [] c = "4" -> 4 [] c = "5" -> 5 [] c = "6" -> 6 [] c = "7" -> 7
    [] c = "8" -> 8 [] OTHER -> 9

\* str.strip(): leading and trailing whitespace removed
RECURSIVE LStrip(_)
LStrip(s) ==
  IF s # <<>> /\ Head(s) \in Whitespace THEN LStrip(Tail(s)) ELSE s

RECURSIVE RStrip(_)
RStrip(s) ==
  IF s # <<>> /\ s[Len(s)] \in Whitespace
    THEN RStrip(SubSeq(s, 1, Len(s) - 1))
    ELSE s

Strip(s) == RStrip(LStrip(s))

\* str.split(","): always at least one piece, "" for the empty string
RECURSIVE SplitComma(_)
SplitComma(s) ==
  IF \E i \in 1..Len(s) : s[i] = ","
    THEN LET i == CHOOSE k \in 1..Len(s) :
                    s[k] = "," /\ \A j \in 1..(k - 1) : s[j] # ","
         IN <<SubSeq(s, 1, i - 1)>> \o SplitComma(SubSeq(s, i + 1, Len(s)))
    ELSE <<s>>

\* fnmatch.fnmatch(name, pat) on a POSIX build (normcase is the identity):
\* `*` matches any run of characters, `?` one character, the whole name
\* must match.  The patterns drawn here hold no `[`.
RECURSIVE minimatch(_, _)
minimatch(name, pat) ==
  IF pat = <<>> THEN name = <<>>
  ELSE IF Head(pat) = "*"
    THEN minimatch(name, Tail(pat))
         \/ (name # <<>> /\ minimatch(Tail(name), pat))
  ELSE IF Head(pat) = "?"
    THEN name # <<>> /\ minimatch(Tail(name), Tail(pat))
  ELSE name # <<>> /\ Head(name) = Head(pat)
       /\ minimatch(Tail(name), Tail(pat))

\* int(x): an int is itself; a string is stripped, takes one optional sign
\* and must then be a non-empty run of digits, else ValueError.
RECURSIVE DigitsVal(_, _)
DigitsVal(s, acc) ==
  IF s = <<>> THEN acc ELSE DigitsVal(Tail(s), acc * 10 + DigitVal(Head(s)))

IntOfStr(s) ==
  LET t == Strip(s)
      neg == t # <<>> /\ Head(t) = "-"
      u == IF t # <<>> /\ Head(t) \in {"-", "+"} THEN Tail(t) ELSE t
  IN IF u # <<>> /\ \A i \in 1..Len(u) : u[i] \in Digits
       THEN [ok |-> TRUE, n |-> IF neg THEN 0 - DigitsVal(u, 0) ELSE DigitsVal(u, 0)]
       ELSE [ok |-> FALSE, n |-> 0]

int(v) == IF v.t = "int" THEN [ok |-> TRUE, n |-> v.n] ELSE IntOfStr(v.s)

\* ---------------------------------------------------------- parsed diffs
\* A change carries ln, or ln1/ln2 for a context line; 0 stands for absent.
Chunk(k) ==
  [content |-> k,
   changes |-> << [type |-> "add", ln |-> k, ln2 |-> 0, content |-> "+x"],
                  [type |-> "normal", ln |-> 0, ln2 |-> k + 1, content |-> " y"] >>]

ChunkPrefix(n) == [k \in 1..n |-> Chunk(k)]

\* file.to: absent (None), or a string
NoTo == [isNone |-> TRUE, s |-> <<>>]
To(s) == [isNone |-> FALSE, s |-> s]
ToPool == {NoTo, To(PathAM), To(DevNull)}

FilePool == {[to |-> t, chunks |-> ChunkPrefix(n)] : t \in ToPool, n \in 0..MaxChunks}

RECURSIVE TotalChunks(_)
TotalChunks(files) ==
  IF files = <<>> THEN 0 ELSE Len(Head(files).chunks) + TotalChunks(Tail(files))

DiffPool ==
  {d \in UNION {[1..n -> FilePool] : n \in 0..MaxFiles} : TotalChunks(d) <= MaxChunks}

\* Python truthiness of file.to, and `file.to or ""`
ToTruthy(t) == ~t.isNone /\ t.s # <<>>
ToOrEmpty(t) == IF ToTruthy(t) THEN t.s ELSE <<>>

\* ------------------------------------------------- language-model replies
\* lineNumber values of a reply item: a JSON number or a JSON string
IntVal(n) == [t |-> "int", n |-> n, s |-> <<>>]
StrVal(s) == [t |-> "str", n |-> 0, s |-> s]

\* a reply item; `keys` is the set of keys the JSON object holds
ItemNumStr == [keys |-> {"lineNumber", "reviewComment"},
               lineNumber |-> StrVal(<<"1">>), reviewComment |-> "avoid X"]
ItemFarLine == [keys |-> {"lineNumber", "reviewComment"},
                lineNumber |-> IntVal(9), reviewComment |-> "rename"]
ItemNonNumeric == [keys |-> {"lineNumber", "reviewComment"},
                   lineNumber |-> StrVal(<<"x">>), reviewComment |-> "avoid X"]
ItemNoBody == [keys |-> {"lineNumber"},
               lineNumber |-> IntVal(1), reviewComment |-> ""]
\* items of the replies of a whole run, and of a direct call of create_comment
ItemPool == {ItemNumStr, ItemFarLine, ItemNonNumeric}
MapperItemPool == ItemPool \cup {ItemNoBody}

ListsOf(pool) == UNION {[1..n -> pool] : n \in 0..MaxItems}

\* the `reviews` lists of the replies of a whole run: empty, one item, two
\* conforming items, or a conforming item next to a non-numeric one
ItemLists ==
  {<<>>, <<ItemNumStr>>, <<ItemNonNumeric>>,
   <<ItemNumStr, ItemFarLine>>,
   <<ItemNumStr, ItemNonNumeric>>, <<ItemNonNumeric, ItemFarLine>>}

\* What create_chat_completion does: it raises (transport error, timeout),
\* or returns a message whose content is free text, blank, a JSON object
\* without `reviews`, or a JSON object with a `reviews` list.
CallError == [kind |-> "error", json |-> "none", reviews |-> <<>>]
FreeText == [kind |-> "content", json |-> "invalid", reviews |-> <<>>]
BlankText == [kind |-> "content", json |-> "blank", reviews |-> <<>>]
NoReviews == [kind |-> "content", json |-> "object", reviews |-> <<>>]
Reviews(l) == [kind |-> "content", json |-> "reviews", reviews |-> l]

FailReplies == {CallError, FreeText, BlankText, NoReviews}
ReplyPool == FailReplies \cup {Reviews(l) : l \in ItemLists}

\* the value get_ai_response returns: None, or the `reviews` list
None == [none |-> TRUE, val |-> <<>>]
Some(l) == [none |-> FALSE, val |-> l]

\* lines 102-118: every exception inside the try block becomes None
get_ai_response(reply) ==
  IF reply.kind = "error" THEN None
  ELSE LET res == IF reply.json = "blank" THEN "{}" ELSE reply.json
       IN IF res = "invalid" THEN None        \* json.loads raises
          ELSE IF res # "reviews" THEN None   \* KeyError on ["reviews"]
          ELSE Some(reply.reviews)

\* line 87: the line number shown for a change
ShownLine(c) == IF c.ln # 0 THEN c.ln ELSE c.ln2

create_prompt(file, chunk, pr) ==
  [to |-> file.to, title |-> pr.title, description |-> pr.description,
   content |-> chunk.content,
   lines |-> [i \in DOMAIN chunk.changes |->
                <<ShownLine(chunk.changes[i]), chunk.changes[i].content>>]]

\* one element of the list comprehension of create_comment
ItemRaises(item) ==
  \/ "reviewComment" \notin item.keys
  \/ "lineNumber" \notin item.keys
  \/ ~int(item.lineNumber).ok

ItemComment(file, item) ==
  [body |-> item.reviewComment, path |-> file.to.s, line |-> int(item.lineNumber).n]

\* lines 121-130: iterating None raises; `if file.to` is tested before the
\* element is built; one failing element fails the whole comprehension
create_comment(file, chunk, ai_responses) ==
  IF ai_responses.none THEN [raised |-> TRUE, val |-> <<>>]
  ELSE IF ~ToTruthy(file.to) THEN [raised |-> FALSE, val |-> <<>>]
  ELSE IF \E i \in DOMAIN ai_responses.val : ItemRaises(ai_responses.val[i])
    THEN [raised |-> TRUE, val |-> <<>>]
  ELSE [raised |-> FALSE,
        val |-> [i \in DOMAIN ai_responses.val |-> ItemComment(file, ai_responses.val[i])]]

\* line 62: `if ai_response:`
ResponseTruthyNoCheck(r) == TRUE
ResponseTruthy(r) == ~r.none /\ r.val # <<>>

\* line 55: `if file.to == "/dev/null"`
IsDeletedNever(file) == FALSE
IsDeleted(file) == ~file.to.isNone /\ file.to.s = DevNull

\* line 178: `if comments:`
CommentsTruthyAlways(c) == TRUE
CommentsTruthy(c) == c # <<>>

\* lines 148-161: which branch of main the action takes
BranchElseOpened(action) ==
  IF action = "synchronize" THEN "synchronize" ELSE "opened"
Branch(action) ==
  IF action = "opened" THEN "opened"
  ELSE IF action = "synchronize" THEN "synchronize"
  ELSE "unsupported"

\* lines 169-170
ExcludePatterns(env) ==
  LET parts == SplitComma(env) IN [i \in DOMAIN parts |-> Strip(parts[i])]

\* line 173: the test that drops a file
Excluded(file, patterns) ==
  \E i \in DOMAIN patterns : minimatch(ToOrEmpty(file.to), patterns[i])

RECURSIVE FilterDiff(_, _)
FilterDiff(files, patterns) ==
  IF files = <<>> THEN <<>>
  ELSE IF Excluded(Head(files), patterns) THEN FilterDiff(Tail(files), patterns)
  ELSE <<Head(files)>> \o FilterDiff(Tail(files), patterns)

\* ------------------------------------------------------------------ state
VARIABLES
  GITHUB_TOKEN,      \* "set" or "None" (os.getenv at line 9)
  OPENAI_API_KEY,    \* "set" or "None" (line 10)
  event,             \* the file GITHUB_EVENT_PATH names: exists, and its action
  exclude,           \* the `exclude` setting, "" when unset
  pc,                \* the statement of the script that runs next
  outcome,           \* "running", "returned", or "raised" (uncaught exception)
  pr_details,        \* main's pr_details
  diff,              \* main's diff: is the text empty, and what parse_diff makes of it
  parsed_diff,       \* main's parsed_diff
  exclude_patterns,  \* main's exclude_patterns
  filtered_diff,     \* main's filtered_diff, analyze_code's parsed_diff
  comments,          \* analyze_code's comments, then main's
  fi,                \* analyze_code: index of the file of the outer loop
  ci,                \* analyze_code: index of the chunk of the inner loop
  ai_response,       \* analyze_code: what get_ai_response returned last
  hostCalls,         \* requests sent to the hosting platform, in order
  requests,          \* requests sent to the language model, in order
  reviews,           \* the comment lists create_review_comment was called with
  call               \* arguments of a direct call of create_comment

vars == <<GITHUB_TOKEN, OPENAI_API_KEY, event, exclude, pc, outcome, pr_details,
          diff, parsed_diff, exclude_patterns, filtered_diff, comments, fi, ci,
          ai_response, hostCalls, requests, reviews, call>>

env == <<GITHUB_TOKEN, OPENAI_API_KEY, event, exclude>>
locals == <<pr_details, diff, parsed_diff, exclude_patterns, filtered_diff,
            comments, fi, ci, ai_response>>
effects == <<hostCalls, requests, reviews>>

NoDetails == [owner |-> "", repo |-> "", pull_number |-> 0, title |-> "", description |-> ""]
ThePR == [owner |-> "o", repo |-> "r", pull_number |-> 7, title |-> "t", description |-> "d"]
NoDiff == [empty |-> TRUE, parsed |-> <<>>]
NoCall == [file |-> [to |-> NoTo, chunks |-> <<>>], items |-> <<>>]

Actions == {"opened", "synchronize", "closed"}
EventPool == {[exists |-> FALSE, action |-> ""]}
             \cup {[exists |-> TRUE, action |-> a] : a \in Actions}

\* the `exclude` setting: unset, or " *.m"
ExcludePool == {<<>>, <<" ", "*", ".", "m">>}

\* the diff texts the hosting platform can answer with
DiffTexts == {NoDiff} \cup {[empty |-> FALSE, parsed |-> d] : d \in DiffPool}

Fresh ==
  /\ outcome = "running"
  /\ pr_details = NoDetails
  /\ diff = NoDiff
  /\ parsed_diff = <<>>
  /\ exclude_patterns = <<>>
  /\ filtered_diff = <<>>
  /\ comments = <<>>
  /\ fi = 1
  /\ ci = 1
  /\ ai_response = None
  /\ hostCalls = <<>>
  /\ requests = <<>>
  /\ reviews = <<>>

Init ==
  /\ GITHUB_TOKEN \in {"set", "None"}
  /\ OPENAI_API_KEY \in {"set", "None"}
  /\ event \in EventPool
  /\ exclude \in ExcludePool
  /\ pc = "import"
  /\ call = NoCall
  /\ Fresh

Raise == outcome' = "raised" /\ pc' = pc
Return == outcome' = "returned" /\ pc' = "done"

\* lines 9-14: the clients are built from whatever the environment holds;
\* the script tests neither credential.  Github(None) is an anonymous
\* client; what OpenAIAPI(api_key=None) does is the library's choice.
Startup ==
  /\ pc = "import" /\ outcome = "running"
  /\ \/ pc' = "get_pr_details" /\ outcome' = outcome
     \/ OPENAI_API_KEY = "None" /\ Raise
  /\ UNCHANGED <<env, locals, effects, call>>

\* lines 26-41 (called at line 142): open() raises when the event file is
\* missing; otherwise one request to the hosting platform, which can fail
GetPrDetails ==
  /\ pc = "get_pr_details" /\ outcome = "running"
  /\ \/ /\ ~event.exists
        /\ Raise
        /\ UNCHANGED <<env, locals, effects, call>>
     \/ /\ event.exists
        /\ hostCalls' = Append(hostCalls, "get_pull")
        /\ \/ /\ pr_details' = ThePR
              /\ pc' = "dispatch"
              /\ outcome' = outcome
           \/ /\ Raise
              /\ pr_details' = pr_details
        /\ UNCHANGED <<env, diff, parsed_diff, exclude_patterns, filtered_diff,
                       comments, fi, ci, ai_response, requests, reviews, call>>

\* lines 143-165: re-read the event, fetch the diff of the action's branch,
\* stop on an unsupported action or an empty diff
Dispatch ==
  /\ pc = "dispatch" /\ outcome = "running"
  /\ \/ /\ Branch(event.action) = "opened"
        /\ hostCalls' = Append(hostCalls, "get_diff")
        /\ \/ \E d \in DiffTexts :
                /\ diff' = d
                /\ IF d.empty THEN Return ELSE (pc' = "filter" /\ outcome' = outcome)
           \/ Raise /\ diff' = diff
     \/ /\ Branch(event.action) = "synchronize"
        /\ \/ /\ hostCalls' = hostCalls \o <<"get_commit", "get_commit">>
              /\ \E d \in DiffTexts :
                   /\ diff' = d
                   /\ IF d.empty THEN Return ELSE (pc' = "filter" /\ outcome' = outcome)
           \/ /\ \E n \in 1..2 :
                   hostCalls' = hostCalls \o SubSeq(<<"get_commit", "get_commit">>, 1, n)
              /\ Raise /\ diff' = diff
     \/ /\ Branch(event.action) = "unsupported"
        /\ Return
        /\ UNCHANGED <<diff, hostCalls>>
  /\ UNCHANGED <<env, pr_details, parsed_diff, exclude_patterns, filtered_diff,
                 comments, fi, ci, ai_response, requests, reviews, call>>

\* lines 167-174: parse, read the exclusion patterns, filter; line 176 enters
\* analyze_code
Filter ==
  /\ pc = "filter" /\ outcome = "running"
  /\ parsed_diff' = diff.parsed
  /\ exclude_patterns' = ExcludePatterns(exclude)
  /\ filtered_diff' = FilterDiff(diff.parsed, ExcludePatterns(exclude))
  /\ comments' = <<>>
  /\ fi' = 1 /\ ci' = 1
  /\ pc' = "analyze"
  /\ UNCHANGED <<env, outcome, pr_details, diff, ai_response, effects, call>>

\* ---------------------------------------------------------- analyze_code
InFiles == pc = "analyze" /\ outcome = "running" /\ fi <= Len(filtered_diff)

\* lines 54-56: a deleted file is passed over
SkipDeleted ==
  /\ InFiles
  /\ IsDeleted(filtered_diff[fi])
  /\ fi' = fi + 1 /\ ci' = 1
  /\ UNCHANGED <<env, pc, outcome, pr_details, diff, parsed_diff, exclude_patterns,
                 filtered_diff, comments, ai_response, effects, call>>

\* lines 58-65: one turn of the inner loop with the model answering `reply`
AnalyzeChunk(reply) ==
  /\ InFiles
  /\ ~IsDeleted(filtered_diff[fi])
  /\ ci <= Len(filtered_diff[fi].chunks)
  /\ LET file == filtered_diff[fi]
         chunk == file.chunks[ci]
         prompt == create_prompt(file, chunk, pr_details)
         new_comments == create_comment(file, chunk, get_ai_response(reply))
     IN /\ requests' = Append(requests, [file |-> fi, chunk |-> ci, prompt |-> prompt])
        /\ ai_response' = get_ai_response(reply)
        /\ IF ~ResponseTruthy(get_ai_response(reply))
             THEN /\ comments' = comments
                  /\ ci' = ci + 1
                  /\ UNCHANGED <<pc, outcome>>
             ELSE IF new_comments.raised
               THEN /\ Raise
                    /\ UNCHANGED <<comments, ci>>
               ELSE /\ comments' = comments \o new_comments.val
                    /\ ci' = ci + 1
                    /\ UNCHANGED <<pc, outcome>>
  /\ UNCHANGED <<env, pr_details, diff, parsed_diff, exclude_patterns, filtered_diff,
                 fi, hostCalls, reviews, call>>

\* line 58: the inner loop ends, the outer loop takes the next file
NextFile ==
  /\ InFiles
  /\ ~IsDeleted(filtered_diff[fi])
  /\ ci > Len(filtered_diff[fi].chunks)
  /\ fi' = fi + 1 /\ ci' = 1
  /\ UNCHANGED <<env, pc, outcome, pr_details, diff, parsed_diff, exclude_patterns,
                 filtered_diff, comments, ai_response, effects, call>>

\* lines 67, 176-179: analyze_code returns; main submits when there are comments
\* (create_review can fail) and ends
Submit ==
  /\ pc = "analyze" /\ outcome = "running" /\ fi > Len(filtered_diff)
  /\ IF CommentsTruthy(comments)
       THEN /\ hostCalls' = Append(hostCalls, "create_review")
            /\ reviews' = Append(reviews, comments)
            /\ \/ Return
               \/ outcome' = "raised" /\ pc' = "submit"
       ELSE /\ Return
            /\ UNCHANGED <<hostCalls, reviews>>
  /\ UNCHANGED <<env, locals, requests, call>>

Next ==
  \/ Startup
  \/ GetPrDetails
  \/ Dispatch
  \/ Filter
  \/ SkipDeleted
  \/ \E reply \in ReplyPool : AnalyzeChunk(reply)
  \/ NextFile
  \/ Submit

Spec == Init /\ [][Next]_vars

\* ------------------------------------------- create_comment called directly
MapperToPool == {NoTo, To(<<>>), To(PathAM), To(DevNull)}
MapperCalls ==
  {[file |-> [to |-> t, chunks |-> ChunkPrefix(1)], items |-> l] :
     t \in MapperToPool, l \in ListsOf(MapperItemPool) \ {<<>>}}

InitMapper ==
  /\ GITHUB_TOKEN = "set"
  /\ OPENAI_API_KEY = "set"
  /\ event = [exists |-> TRUE, action |-> "opened"]
  /\ exclude = <<>>
  /\ pc = "create_comment"
  /\ call \in MapperCalls
  /\ Fresh

\* lines 121-130 applied to the arguments in `call`
MapperCall ==
  /\ pc = "create_comment" /\ outcome = "running"
  /\ LET r == create_comment(call.file, call.file.chunks[1], Some(call.items))
     IN IF r.raised
          THEN Raise /\ comments' = comments
          ELSE Return /\ comments' = r.val
  /\ UNCHANGED <<env, pr_details, diff, parsed_diff, exclude_patterns, filtered_diff,
                 fi, ci, ai_response, effects, call>>

NextMapper == MapperCall

SpecMapper == InitMapper /\ [][NextMapper]_vars

\* ----------------------------------------------------------------- claims
\* the line numbers the changes of a chunk carry
ChunkLines(chunk) ==
  ({chunk.changes[i].ln : i \in DOMAIN chunk.changes}
     \cup {chunk.changes[i].ln2 : i \in DOMAIN chunk.changes}) \ {0}

\* a turn of the inner loop of analyze_code has just run
ChunkTurn == Len(requests') = Len(requests) + 1

\* the prompts of the chunks of the files that are not deleted, in diff order
RECURSIVE ChunkPrompts(_, _)
ChunkPrompts(files, pr) ==
  IF files = <<>> THEN <<>>
  ELSE LET f == Head(files)
           own == IF ~f.to.isNone /\ f.to.s = DevNull THEN <<>>
                  ELSE [k \in DOMAIN f.chunks |-> create_prompt(f, f.chunks[k], pr)]
       IN own \o ChunkPrompts(Tail(files), pr)

SentPrompts == [i \in DOMAIN requests |-> requests[i].prompt]

\* C1: create_review_comment is invoked at most once in a run and only with a
\* non-empty comment list; with an empty diff text, or with no comment
\* gathered, it is not invoked at all.
C1_SubmitOnceNonEmpty ==
  /\ Len(reviews) <= 1
  /\ \A i \in DOMAIN reviews : reviews[i] # <<>> /\ reviews[i] = comments
  /\ (diff.empty \/ comments = <<>>) => reviews = <<>>
  /\ Len(SelectSeq(hostCalls, LAMBDA c : c = "create_review")) = Len(reviews)

C1_Witness ==
  /\ pc = "done" /\ outcome = "returned"
  /\ Len(reviews) = 1
  /\ Len(requests) >= 2

\* C2: when the model call of a chunk fails or its reply is not the schema
\* (free text, blank, no `reviews`), that turn of the loop adds no comment,
\* keeps the comments gathered so far, raises nothing and moves on to the
\* next chunk.
C2_FailedChunkIsolated ==
  [][\A reply \in FailReplies :
       AnalyzeChunk(reply) =>
         /\ comments' = comments
         /\ outcome' = "running" /\ pc' = "analyze"
         /\ fi' = fi /\ ci' = ci + 1
         /\ ai_response'.none]_vars

C2_Witness ==
  /\ pc = "analyze" /\ outcome = "running"
  /\ Len(requests) = 2 /\ ai_response.none
  /\ comments # <<>>
  /\ fi <= Len(filtered_diff) /\ ci <= Len(filtered_diff[fi].chunks)

\* C3: a `reviews` list with a non-conforming item loses only that item: the
\* conforming items of the same reply yield their comments and the run goes on.
Conforming(file, l) ==
  LET good == SelectSeq(l, LAMBDA it : ~ItemRaises(it))
  IN [i \in DOMAIN good |-> ItemComment(file, good[i])]

C3_OnlyBadItemDropped ==
  [][\A l \in ItemLists :
       (AnalyzeChunk(Reviews(l)) /\ l # <<>> /\ ToTruthy(filtered_diff[fi].to)) =>
         /\ outcome' = "running"
         /\ comments' = comments \o Conforming(filtered_diff[fi], l)]_vars

\* C4: a file whose destination path is /dev/null gets no prompt and no
\* language-model call, and no comment carries that path.
C4_DeletedNeverReviewed ==
  /\ \A i \in DOMAIN requests :
       LET f == filtered_diff[requests[i].file]
       IN f.to.isNone \/ f.to.s # DevNull
  /\ \A i \in DOMAIN requests : requests[i].prompt.to # To(DevNull)
  /\ \A i \in DOMAIN comments : comments[i].path # DevNull

C4_Witness ==
  /\ pc = "done" /\ outcome = "returned"
  /\ requests # <<>>
  /\ \E i \in DOMAIN filtered_diff :
       filtered_diff[i].to = To(DevNull) /\ filtered_diff[i].chunks # <<>>

\* C5: a file is dropped by the path filter only if its destination path
\* matches some non-blank exclusion pattern.
MatchesNonBlank(file, setting) ==
  LET parts == SplitComma(setting)
  IN \E i \in DOMAIN parts :
       Strip(parts[i]) # <<>> /\ minimatch(ToOrEmpty(file.to), Strip(parts[i]))

C5_BlankNeverExcludes ==
  \A i \in DOMAIN parsed_diff :
    (\A j \in DOMAIN filtered_diff : filtered_diff[j] # parsed_diff[i])
      => MatchesNonBlank(parsed_diff[i], exclude)

\* C6: create_comment builds no comment for a file whose destination path is
\* empty, absent or /dev/null; no comment has such a path.
C6_MapperSkipsSentinel ==
  /\ (pc = "done" /\ (~ToTruthy(call.file.to) \/ call.file.to.s = DevNull))
       => comments = <<>>
  /\ \A i \in DOMAIN comments : comments[i].path \notin {<<>>, DevNull}

\* C7: the line of every comment is a line number carried by a change of the
\* chunk whose prompt produced the reply.
C7_LineInChunk ==
  [][ChunkTurn =>
       \A k \in (Len(comments) + 1)..Len(comments') :
         comments'[k].line \in ChunkLines(filtered_diff[fi].chunks[ci])]_vars

\* C8: with the token, the key or the event file missing, the run makes no
\* request to the hosting platform and none to the language model.
C8_AbortBeforeExternalCall ==
  (GITHUB_TOKEN = "None" \/ OPENAI_API_KEY = "None" \/ ~event.exists)
    => hostCalls = <<>> /\ requests = <<>>

\* C9: with an action other than opened and synchronize the run fetches no
\* diff, makes no language-model call, submits no review and returns normally
\* once the action is looked at.
C9_UnsupportedActionNoEffects ==
  (event.exists /\ event.action \notin {"opened", "synchronize"}) =>
    /\ \A i \in DOMAIN hostCalls : hostCalls[i] = "get_pull"
    /\ requests = <<>> /\ reviews = <<>>
    /\ diff = NoDiff /\ comments = <<>>
    /\ pc \notin {"filter", "analyze", "submit"}
    /\ pc = "dispatch" => outcome = "running"
    /\ pc = "done" => outcome = "returned"

C9_Witness ==
  /\ event.exists /\ event.action = "closed"
  /\ pc = "done" /\ outcome = "returned"
  /\ hostCalls = <<"get_pull">>

\* C10: when analyze_code is over, the language-model requests are, one per
\* chunk and in diff order, the chunks of the files that are not deleted.
C10_OneRequestPerChunk ==
  (outcome # "running" /\ pc \in {"analyze", "submit", "done"})
    => SentPrompts = ChunkPrompts(filtered_diff, pr_details)

====
